---- MODULE Spec2Model ----
(***************************************************************************)
(* Model of the channel negotiation and transport subsystem of the         *)
(* Closure library:                                                        *)
(*   - goog.net.WebSocket (closure/goog/net/iframeloadmonitor.js, second   *)
(*     half of the file): the reconnecting socket wrapper;                 *)
(*   - goog.net.BrowserTestChannel (closure/goog/net/browsertestchannel.js)*)
(*     the two-stage connection test;                                      *)
(*   - the image-load probe with retries used by the blocked check.        *)
(* The two components are independent; each has its own specification      *)
(* (SpecWS, SpecTC, SpecProbe) over the shared variable tuple.             *)
(***************************************************************************)
EXTENDS Integers, Sequences, FiniteSets, TLC

\* ------------------------------------------------------------------ bounds

\* transports that may exist at once (created, close event not yet delivered)
MaxLive == 2
\* reconnect timers that may be pending at once
MaxTimers == 2
\* cap on reconnectAttempt_ (2^6 * 1000 already exceeds the ceiling)
MaxAttempt == 7

\* data deliveries the platform makes for one request
MaxData == 2
\* Date.now() advances up to MaxNow
MaxNow == 1800
\* retries a probe may be started with
MaxRetries == 4

\* ------------------------------------------------------- WebSocket constants

EXPONENTIAL_BACKOFF_CEILING_ == 60000

\* the null handle of webSocket_ and the null id of reconnectTimer_
Null == 0
NullUrl == "null"
Undefined == "undefined"
\* the (url, opt_protocol) pairs a caller passes to open()
OpenArgs == {<<"ws://a", Undefined>>, <<"ws://b", "chat">>}

Min(a, b) == IF a < b THEN a ELSE b

RECURSIVE Pow2(_)
Pow2(n) == IF n = 0 THEN 1 ELSE 2 * Pow2(n - 1)

\* goog.net.WebSocket.EXPONENTIAL_BACKOFF_
EXPONENTIAL_BACKOFF_(attempt) ==
    Min(Pow2(attempt) * 1000, EXPONENTIAL_BACKOFF_CEILING_)

\* ------------------------------------------------- BrowserTestChannel constants

\* goog.net.BrowserTestChannel.State_; state_ is null before connect()
NullState == -1
INIT == 0
CHECKING_BLOCKED == 1
CONNECTION_TESTING == 2

BLOCKED_TIMEOUT_ == 5000
BLOCKED_RETRIES_ == 3
BLOCKED_PAUSE_BETWEEN_RETRIES_ == 2000
MIN_TIME_EXPECTED_BETWEEN_DATA_ == 500

\* a null timestamp; JavaScript arithmetic reads null as 0
NullTime == 0
\* Date.now() when the test channel is constructed
Epoch == 1000
\* the amounts by which Date.now() advances between two callbacks
Ticks == {300, 500}

NullStr == "null"
\* the response texts the platform delivers for the stage-1 request
S1Texts == {"", "garbage", "[\"hostA\",\"\"]", "[\"hostA\",\"blockedHostB\"]"}
\* the response texts the platform delivers for the stage-2 request
S2Texts == {"11111", "2", "111112"}
\* the cached stage-1 results of the owner (null: <<>>)
FirstResults == {<<>>, <<"hostA", "">>, <<"hostA", "blockedHostB">>}
\* the cached stage-2 result of the owner: null, true (buffered) or false
SecondResults == {"null", "true", "false"}
\* how a request can fail: <<status code, goog.net.ChannelRequest.Error>>
Failures == {<<500, "STATUS">>, <<0, "TIMEOUT">>}

\* JavaScript truthiness of a prefix string
Truthy(x) == x \notin {"", NullStr}

\* goog.json.NativeJsonProcessor.parse on the texts above: JSON.parse throws
\* on text that is no JSON
parse(text) ==
    IF text = "[\"hostA\",\"\"]" THEN [ok |-> TRUE, arr |-> <<"hostA", "">>]
    ELSE IF text = "[\"hostA\",\"blockedHostB\"]"
         THEN [ok |-> TRUE, arr |-> <<"hostA", "blockedHostB">>]
    ELSE [ok |-> FALSE, arr |-> <<>>]

\* ------------------------------------------------------------------ state

VARIABLES
    \* goog.net.WebSocket fields
    autoReconnect_, webSocket_, url_, protocol_, closeExpected_,
    reconnectAttempt_, nextReconnect_, reconnectTimer_,
    \* the platform: native transports and window timers
    sockets, timers,
    \* observation of the socket: last handler run, last event dispatched,
    \* reconnects scheduled since the last open event and the last delay used,
    \* close() was called while a reconnect timer was pending and the caller
    \* has not called open() since
    wsOp, wsEvent, schedN, schedDelay, closedWithTimer,
    \* goog.net.BrowserTestChannel fields
    state_, request_, receivedIntermediateResult_, startTime_, firstTime_,
    lastTime_, lastStatusCode_, hostPrefix_, blockedPrefix_,
    \* the owner (goog.net.BrowserChannel) and the platform: the cached test
    \* results, ChannelRequest.supportsXhrStreaming(),
    \* shouldUseSecondaryDomains(), the requests created so far, Date.now()
    firstTestResults, secondTestResults, streaming, secondary, reqs, now,
    \* observation of the test channel: last handler run, the arguments of the
    \* testConnectionFinished and testConnectionFailure calls in order, the
    \* number of testConnectionBlocked calls and of stage-2 requests issued,
    \* the server reachability events notified in order, each with the number
    \* of prober calls made when it was notified
    tcOp, finished, failures, blocked, stage2Requests, reach,
    \* Date.now() at the first and at the last data delivery of stage 2,
    \* whether the owner has called abort()
    firstData, lastData, aborted,
    \* the image-load probe with retries: where it stands, who started it,
    \* retries left, retries it was started with, calls of the underlying
    \* prober, how each failed attempt failed, results passed to its callback
    \* in order
    probePc, probeOwner, retriesRemaining, probeRetries, proberCalls,
    probeLog, probeResults

tcVars == <<state_, request_, receivedIntermediateResult_, startTime_,
            firstTime_, lastTime_, lastStatusCode_, hostPrefix_, blockedPrefix_,
            firstTestResults, secondTestResults, streaming, secondary,
            reqs, now, tcOp, finished, failures, blocked, stage2Requests,
            reach, firstData, lastData, aborted>>

envVars == <<firstTestResults, secondTestResults, streaming, secondary>>

probeVars == <<probePc, probeOwner, retriesRemaining, probeRetries,
               proberCalls, probeLog, probeResults>>

wsVars == <<autoReconnect_, webSocket_, url_, protocol_, closeExpected_,
            reconnectAttempt_, nextReconnect_, reconnectTimer_,
            sockets, timers, wsOp, wsEvent, schedN, schedDelay, closedWithTimer>>

vars == <<wsVars, tcVars, probeVars>>

SocketIds == 1..MaxLive
TimerIds == 1..(MaxTimers + 1)

\* a transport slot: its readyState (FREE: no transport; a transport whose
\* close event was delivered is CLOSED and gone) and whether close() was
\* called on it by the socket
FreeSocket == [rs |-> "FREE", deliberate |-> FALSE]

Live == {i \in SocketIds : sockets[i].rs # "FREE"}

\* ------------------------------------------------------- WebSocket handlers

\* goog.net.WebSocket.prototype.isOpen
isOpen ==
    /\ webSocket_ # Null
    /\ sockets[webSocket_].rs = "OPEN"

\* goog.Timer.clear / goog.net.WebSocket.prototype.clearReconnectTimer_:
\* the pending timers left once the recorded one is cleared
clearReconnectTimer_(pend) ==
    IF reconnectTimer_ # Null
    THEN {t \in pend : t.id # reconnectTimer_}
    ELSE pend

\* new WebSocket(url, protocol): the platform creates a transport in
\* CONNECTING; its identity is the lowest unused slot
NewSocketId == CHOOSE i \in SocketIds :
                   /\ sockets[i].rs = "FREE"
                   /\ \A j \in SocketIds : sockets[j].rs = "FREE" => i <= j

\* open without the already-open assertion
open_NoAssert(url, opt_protocol, pend) ==
    /\ wsEvent' = "none"
    /\ timers' = clearReconnectTimer_(pend)
    /\ reconnectTimer_' = Null
    /\ url_' = url
    /\ protocol_' = opt_protocol
    /\ webSocket_' = NewSocketId
    /\ sockets' = [sockets EXCEPT ![NewSocketId] =
                      [rs |-> "CONNECTING", deliberate |-> FALSE]]

\* goog.net.WebSocket.prototype.open, run with the pending timers pend
open(url, opt_protocol, pend) ==
    IF isOpen
    THEN \* goog.asserts.assert(!this.isOpen(), ...) throws before any write
         /\ wsEvent' = "assert"
         /\ timers' = pend
         /\ UNCHANGED <<webSocket_, url_, protocol_, reconnectTimer_, sockets>>
    ELSE /\ wsEvent' = "none"
         /\ timers' = clearReconnectTimer_(pend)
         /\ reconnectTimer_' = Null
         /\ url_' = url
         /\ protocol_' = opt_protocol
         /\ webSocket_' = NewSocketId
         /\ sockets' = [sockets EXCEPT ![NewSocketId] =
                           [rs |-> "CONNECTING", deliberate |-> FALSE]]

\* goog.net.WebSocket.prototype.close, run with the pending timers pend
close(pend) ==
    /\ timers' = clearReconnectTimer_(pend)
    /\ reconnectTimer_' = Null
    /\ IF webSocket_ # Null
       THEN /\ closeExpected_' = TRUE
            \* native WebSocket.close(): the transport starts its closing
            \* handshake; its close event is delivered later
            /\ sockets' = [sockets EXCEPT ![webSocket_] =
                              [@ EXCEPT !.rs = "CLOSING", !.deliberate = TRUE]]
            /\ webSocket_' = Null
       ELSE UNCHANGED <<closeExpected_, sockets, webSocket_>>

\* goog.net.WebSocket.prototype.onOpen_
onOpen_ ==
    /\ wsEvent' = "opened"
    /\ reconnectAttempt_' = 0
    /\ nextReconnect_' = EXPONENTIAL_BACKOFF_(0)

\* goog.Timer.callOnce: the id of the new timer, distinct from every pending
\* timer and from the id still recorded in reconnectTimer_
NewTimerId == CHOOSE k \in TimerIds :
                  /\ k # reconnectTimer_
                  /\ \A t \in timers : t.id # k
                  /\ \A j \in TimerIds :
                        (j # reconnectTimer_ /\ \A t \in timers : t.id # j)
                            => k <= j

\* ScheduleReconnect with the counter advanced before the timer is scheduled
ScheduleReconnect_IncrementFirst ==
    /\ timers' = timers \cup {[id |-> NewTimerId, url |-> url_,
                              protocol |-> protocol_]}
    /\ reconnectTimer_' = NewTimerId
    /\ schedN' = schedN + 1
    /\ schedDelay' = EXPONENTIAL_BACKOFF_(reconnectAttempt_ + 1)
    /\ reconnectAttempt_' = reconnectAttempt_ + 1
    /\ nextReconnect_' = EXPONENTIAL_BACKOFF_(reconnectAttempt_ + 1)

\* the reconnect branch of onClose_: the timer is scheduled with the delay
\* held in nextReconnect_, then the attempt counter and the delay advance
ScheduleReconnect ==
    /\ timers' = timers \cup {[id |-> NewTimerId, url |-> url_,
                              protocol |-> protocol_]}
    /\ reconnectTimer_' = NewTimerId
    /\ schedN' = schedN + 1
    /\ schedDelay' = nextReconnect_
    /\ reconnectAttempt_' = reconnectAttempt_ + 1
    /\ nextReconnect_' = EXPONENTIAL_BACKOFF_(reconnectAttempt_ + 1)

\* onClose_ that keeps the URL and the protocol after an expected close
onClose_KeepsUrl ==
    /\ wsEvent' = "closed"
    /\ webSocket_' = Null
    /\ IF closeExpected_
       THEN UNCHANGED <<url_, protocol_, timers, reconnectTimer_, schedN,
                        schedDelay, reconnectAttempt_, nextReconnect_>>
       ELSE /\ UNCHANGED <<url_, protocol_>>
            /\ IF autoReconnect_
               THEN ScheduleReconnect
               ELSE UNCHANGED <<timers, reconnectTimer_, schedN, schedDelay,
                                reconnectAttempt_, nextReconnect_>>
    /\ closeExpected_' = FALSE

\* onClose_ that reconnects after every unexpected close, enabled or not
onClose_AlwaysReconnect ==
    /\ wsEvent' = "closed"
    /\ webSocket_' = Null
    /\ IF closeExpected_
       THEN /\ url_' = NullUrl
            /\ protocol_' = Undefined
            /\ UNCHANGED <<timers, reconnectTimer_, schedN, schedDelay,
                           reconnectAttempt_, nextReconnect_>>
       ELSE /\ UNCHANGED <<url_, protocol_>>
            /\ ScheduleReconnect
    /\ closeExpected_' = FALSE

\* goog.net.WebSocket.prototype.onClose_
onClose_ ==
    /\ wsEvent' = "closed"
    /\ webSocket_' = Null
    /\ IF closeExpected_
       THEN /\ url_' = NullUrl
            /\ protocol_' = Undefined
            /\ UNCHANGED <<timers, reconnectTimer_, schedN, schedDelay,
                           reconnectAttempt_, nextReconnect_>>
       ELSE /\ UNCHANGED <<url_, protocol_>>
            /\ IF autoReconnect_
               THEN ScheduleReconnect
               ELSE UNCHANGED <<timers, reconnectTimer_, schedN, schedDelay,
                                reconnectAttempt_, nextReconnect_>>
    /\ closeExpected_' = FALSE

\* goog.net.WebSocket.prototype.onMessage_
onMessage_ == wsEvent' = "message"

\* goog.net.WebSocket.prototype.onError_
onError_ == wsEvent' = "error"

\* ------------------------------------------------------- WebSocket actions

\* new goog.net.WebSocket(opt_params)
WSNew ==
    /\ webSocket_ = Null
    /\ url_ = NullUrl
    /\ protocol_ = Undefined
    /\ closeExpected_ = FALSE
    /\ reconnectAttempt_ = 0
    /\ nextReconnect_ = EXPONENTIAL_BACKOFF_(0)
    /\ reconnectTimer_ = Null
    /\ sockets = [i \in SocketIds |-> FreeSocket]
    /\ timers = {}
    /\ wsOp = "new"
    /\ wsEvent = "none"
    /\ schedN = 0
    /\ schedDelay = 0
    /\ closedWithTimer = FALSE

\* the caller calls open(url, opt_protocol)
CallerOpen ==
    \E a \in OpenArgs :
        /\ isOpen \/ Cardinality(Live) < MaxLive
        /\ open(a[1], a[2], timers)
        /\ wsOp' = "open"
        /\ UNCHANGED <<tcVars, probeVars>>
        /\ closedWithTimer' = FALSE
        /\ UNCHANGED <<autoReconnect_, closeExpected_, reconnectAttempt_,
                       nextReconnect_, schedN, schedDelay>>

\* the caller calls close()
CallerClose ==
    /\ close(timers)
    /\ wsOp' = "close"
    /\ UNCHANGED <<tcVars, probeVars>>
    /\ wsEvent' = "none"
    /\ closedWithTimer' = (timers # {})
    /\ UNCHANGED <<autoReconnect_, url_, protocol_, reconnectAttempt_,
                   nextReconnect_, schedN, schedDelay>>

\* a pending reconnect timer fires: goog.bind(this.open, this, url, protocol)
TimerFire ==
    \E t \in timers :
        /\ isOpen \/ Cardinality(Live) < MaxLive
        /\ open(t.url, t.protocol, timers \ {t})
        /\ wsOp' = "timer"
        /\ UNCHANGED <<tcVars, probeVars>>
        /\ UNCHANGED <<autoReconnect_, closeExpected_, reconnectAttempt_,
                       nextReconnect_, schedN, schedDelay, closedWithTimer>>

\* transport i delivers its open event
TransportOpen ==
    \E i \in SocketIds :
        /\ sockets[i].rs = "CONNECTING"
        /\ sockets' = [sockets EXCEPT ![i].rs = "OPEN"]
        /\ onOpen_
        /\ wsOp' = "onOpen"
        /\ UNCHANGED <<tcVars, probeVars>>
        /\ schedN' = 0
        /\ schedDelay' = 0
        /\ UNCHANGED <<autoReconnect_, webSocket_, url_, protocol_,
                       closeExpected_, reconnectTimer_, timers, closedWithTimer>>

\* transport i delivers its close event (connection failure, connection loss
\* or the end of the closing handshake)
TransportClose ==
    \E i \in SocketIds :
        /\ sockets[i].rs # "FREE"
        /\ (autoReconnect_ /\ ~closeExpected_) =>
               /\ reconnectAttempt_ < MaxAttempt
               /\ Cardinality(timers) < MaxTimers
        /\ sockets' = [sockets EXCEPT ![i] = FreeSocket]
        /\ onClose_
        /\ wsOp' = "onClose"
        /\ UNCHANGED <<tcVars, probeVars>>
        /\ UNCHANGED <<autoReconnect_, closedWithTimer>>

\* transport i delivers a message event
TransportMessage ==
    \E i \in SocketIds :
        /\ sockets[i].rs \in {"OPEN", "CLOSING"}
        /\ onMessage_
        /\ wsOp' = "onMessage"
        /\ UNCHANGED <<tcVars, probeVars>>
        /\ UNCHANGED <<autoReconnect_, webSocket_, url_, protocol_,
                       closeExpected_, reconnectAttempt_, nextReconnect_,
                       reconnectTimer_, sockets, timers, schedN, schedDelay,
                       closedWithTimer>>

\* TransportError whose handler also schedules a reconnect
TransportError_Reconnects ==
    \E i \in SocketIds :
        /\ sockets[i].rs # "FREE"
        /\ reconnectAttempt_ < MaxAttempt
        /\ Cardinality(timers) < MaxTimers
        /\ onError_
        /\ ScheduleReconnect
        /\ wsOp' = "onError"
        /\ UNCHANGED <<tcVars, probeVars>>
        /\ UNCHANGED <<autoReconnect_, webSocket_, url_, protocol_,
                       closeExpected_, sockets, closedWithTimer>>

\* transport i delivers an error event
TransportError ==
    \E i \in SocketIds :
        /\ sockets[i].rs # "FREE"
        /\ onError_
        /\ wsOp' = "onError"
        /\ UNCHANGED <<tcVars, probeVars>>
        /\ UNCHANGED <<autoReconnect_, webSocket_, url_, protocol_,
                       closeExpected_, reconnectAttempt_, nextReconnect_,
                       reconnectTimer_, sockets, timers, schedN, schedDelay,
                       closedWithTimer>>

\* -------------------------------------------------- the probe with retries

\* testLoadImageWithRetries(url, timeout, callback, retries, pause): the first
\* attempt is issued at once
probe(owner, timeout, retries, pause) ==
    /\ probePc' = "loading"
    /\ probeOwner' = owner
    /\ retriesRemaining' = retries
    /\ probeRetries' = retries
    /\ proberCalls' = 1
    /\ probeLog' = <<>>
    /\ probeResults' = <<>>

\* ------------------------------------------------ BrowserTestChannel handlers

\* goog.net.BrowserChannel.prototype.correctHostPrefix
correctHostPrefix(serverHostPrefix) ==
    IF secondary THEN serverHostPrefix ELSE NullStr

\* a goog.net.ChannelRequest: where it stands, the data deliveries made and
\* the text of the last one, getLastStatusCode(), getSuccess(), getLastError()
NoRequest == [status |-> "none", nData |-> 0, text |-> NullStr, code |-> -1,
              success |-> FALSE, error |-> "NO_ERROR"]

\* goog.net.ChannelRequest.createChannelRequest followed by xmlHttpGet or
\* tridentGet: request r of the requests rq is in flight
issue(rq, r) == [rq EXCEPT ![r] = [NoRequest EXCEPT !.status = "open"]]

\* goog.net.ChannelRequest.prototype.cancel: a request in flight is cancelled
\* and makes no further callback; a request that is over stays as it is
cancel(rq, r) ==
    [rq EXCEPT ![r].status = IF @ = "open" THEN "cancelled" ELSE @]

\* goog.net.BrowserTestChannel.prototype.notifyServerReachabilityEvent, called
\* when calls prober calls have been made
notifyServerReachabilityEvent(reachabilityType, calls) ==
    reach' = Append(reach, <<reachabilityType, calls>>)

\* goog.net.BrowserTestChannel.prototype.checkBlocked_
checkBlocked_ ==
    /\ probe("testchannel", BLOCKED_TIMEOUT_, BLOCKED_RETRIES_,
             BLOCKED_PAUSE_BETWEEN_RETRIES_)
    /\ notifyServerReachabilityEvent("REQUEST_MADE", 1)

\* connectStage2_ that reports the cached stage-2 result as it is
connectStage2_ReportsCached(rq) ==
    IF secondTestResults # "null"
    THEN /\ finished' = Append(finished, secondTestResults = "true")
         /\ reqs' = rq
         /\ UNCHANGED <<request_, stage2Requests>>
    ELSE /\ request_' = 2
         /\ reqs' = issue(rq, 2)
         /\ stage2Requests' = stage2Requests + 1
         /\ UNCHANGED finished

\* goog.net.BrowserTestChannel.prototype.connectStage2_, with the requests rq
connectStage2_(rq) ==
    IF secondTestResults # "null"
    THEN /\ finished' = Append(finished, secondTestResults # "true")
         /\ reqs' = rq
         /\ UNCHANGED <<request_, stage2Requests>>
    ELSE /\ request_' = 2
         /\ reqs' = issue(rq, 2)
         /\ stage2Requests' = stage2Requests + 1
         /\ UNCHANGED finished

\* afterStage1 that runs the blocked check whatever the prefix
afterStage1_AlwaysCheck(bp, rq) ==
    /\ state_' = CHECKING_BLOCKED
    /\ checkBlocked_
    /\ reqs' = rq
    /\ UNCHANGED <<request_, stage2Requests, finished>>

\* the choice made in connect() and in onRequestComplete once the stage-1
\* results bp (the blocked prefix) are known
afterStage1(bp, rq) ==
    IF Truthy(bp)
    THEN /\ state_' = CHECKING_BLOCKED
         /\ checkBlocked_
         /\ reqs' = rq
         /\ UNCHANGED <<request_, stage2Requests, finished>>
    ELSE /\ state_' = CONNECTION_TESTING
         /\ connectStage2_(rq)
         /\ UNCHANGED <<probeVars, reach>>

\* connect that runs stage 1 whatever the owner has cached
connect_IgnoresCache ==
    /\ startTime_' = now
    /\ request_' = 1
    /\ reqs' = issue(reqs, 1)
    /\ state_' = INIT
    /\ UNCHANGED <<hostPrefix_, blockedPrefix_, stage2Requests, finished>>
    /\ UNCHANGED <<probeVars, reach>>
    /\ UNCHANGED <<receivedIntermediateResult_, firstTime_, lastTime_,
                   lastStatusCode_, failures, blocked>>

\* goog.net.BrowserTestChannel.prototype.connect
connect ==
    /\ startTime_' = now
    /\ IF firstTestResults # <<>>
       THEN /\ hostPrefix_' = correctHostPrefix(firstTestResults[1])
            /\ blockedPrefix_' = firstTestResults[2]
            /\ afterStage1(firstTestResults[2], reqs)
       ELSE /\ request_' = 1
            /\ reqs' = issue(reqs, 1)
            /\ state_' = INIT
            /\ UNCHANGED <<hostPrefix_, blockedPrefix_, stage2Requests,
                           finished>>
            /\ UNCHANGED <<probeVars, reach>>
    /\ UNCHANGED <<receivedIntermediateResult_, firstTime_, lastTime_,
                   lastStatusCode_, failures, blocked>>

\* checkBlockedCallback_ that notifies REQUEST_FAILED when the probe fails
checkBlockedCallback_NotifiesFailure(succeeded) ==
    /\ IF succeeded
       THEN /\ state_' = CONNECTION_TESTING
            /\ connectStage2_(reqs)
            /\ notifyServerReachabilityEvent("REQUEST_SUCCEEDED", proberCalls)
            /\ UNCHANGED blocked
       ELSE /\ blocked' = blocked + 1
            /\ notifyServerReachabilityEvent("REQUEST_FAILED", proberCalls)
            /\ UNCHANGED <<state_, request_, reqs, stage2Requests, finished>>
    /\ UNCHANGED <<receivedIntermediateResult_, startTime_, firstTime_,
                   lastTime_, lastStatusCode_, hostPrefix_, blockedPrefix_,
                   failures>>

\* checkBlockedCallback_ that starts over from INIT when the probe fails
checkBlockedCallback_Restart(succeeded) ==
    /\ IF succeeded
       THEN /\ state_' = CONNECTION_TESTING
            /\ connectStage2_(reqs)
            /\ notifyServerReachabilityEvent("REQUEST_SUCCEEDED", proberCalls)
            /\ UNCHANGED blocked
       ELSE /\ blocked' = blocked + 1
            /\ state_' = INIT
            /\ UNCHANGED <<request_, reqs, stage2Requests, finished, reach>>
    /\ UNCHANGED <<receivedIntermediateResult_, startTime_, firstTime_,
                   lastTime_, lastStatusCode_, hostPrefix_, blockedPrefix_,
                   failures>>

\* goog.net.BrowserTestChannel.prototype.checkBlockedCallback_
checkBlockedCallback_(succeeded) ==
    /\ IF succeeded
       THEN /\ state_' = CONNECTION_TESTING
            /\ connectStage2_(reqs)
            /\ notifyServerReachabilityEvent("REQUEST_SUCCEEDED", proberCalls)
            /\ UNCHANGED blocked
       ELSE /\ blocked' = blocked + 1
            /\ UNCHANGED <<state_, request_, reqs, stage2Requests, finished,
                           reach>>
    /\ UNCHANGED <<receivedIntermediateResult_, startTime_, firstTime_,
                   lastTime_, lastStatusCode_, hostPrefix_, blockedPrefix_,
                   failures>>

\* checkForEarlyNonBuffered_ that asks for streaming support and an early
\* first chunk
checkForEarlyNonBuffered_Both(first) ==
    streaming /\ first - startTime_ < MIN_TIME_EXPECTED_BETWEEN_DATA_

\* goog.net.BrowserTestChannel.prototype.checkForEarlyNonBuffered_, with the
\* value just written to firstTime_
checkForEarlyNonBuffered_(first) ==
    streaming \/ first - startTime_ < MIN_TIME_EXPECTED_BETWEEN_DATA_

\* earlyExit that leaves the request running
earlyExit_NoCancel(rq) ==
    /\ lastStatusCode_' = 200
    /\ reqs' = rq
    /\ finished' = Append(finished, TRUE)

\* the early exit of onRequestData: assume HTTP_OK, cancel the test and
\* report an unbuffered connection
earlyExit(rq) ==
    /\ lastStatusCode_' = 200
    /\ reqs' = cancel(rq, request_)
    /\ finished' = Append(finished, TRUE)

\* onRequestData that stores the host prefix of the response uncorrected
onRequestData_RawHostPrefix(r, code, responseText, rq) ==
    IF state_ = INIT
    THEN /\ lastStatusCode_' = code
         /\ reqs' = rq
         /\ IF responseText = "" \/ ~parse(responseText).ok
            THEN /\ failures' = Append(failures, "BAD_DATA")
                 /\ UNCHANGED <<hostPrefix_, blockedPrefix_>>
            ELSE /\ hostPrefix_' = parse(responseText).arr[1]
                 /\ blockedPrefix_' = parse(responseText).arr[2]
                 /\ UNCHANGED failures
         /\ UNCHANGED <<receivedIntermediateResult_, firstTime_, lastTime_,
                        finished>>
    ELSE IF state_ = CONNECTION_TESTING
    THEN /\ UNCHANGED <<hostPrefix_, blockedPrefix_, failures>>
         /\ IF receivedIntermediateResult_
            THEN /\ lastTime_' = now
                 /\ lastStatusCode_' = code
                 /\ reqs' = rq
                 /\ UNCHANGED <<receivedIntermediateResult_, firstTime_,
                                finished>>
            ELSE IF responseText = "11111"
            THEN /\ receivedIntermediateResult_' = TRUE
                 /\ firstTime_' = now
                 /\ UNCHANGED lastTime_
                 /\ IF checkForEarlyNonBuffered_(now)
                    THEN earlyExit(rq)
                    ELSE /\ lastStatusCode_' = code
                         /\ reqs' = rq
                         /\ UNCHANGED finished
            ELSE /\ firstTime_' = now
                 /\ lastTime_' = now
                 /\ receivedIntermediateResult_' = FALSE
                 /\ lastStatusCode_' = code
                 /\ reqs' = rq
                 /\ UNCHANGED finished
    ELSE /\ lastStatusCode_' = code
         /\ reqs' = rq
         /\ UNCHANGED <<hostPrefix_, blockedPrefix_, failures,
                        receivedIntermediateResult_, firstTime_, lastTime_,
                        finished>>

\* onRequestData that forgets the prefixes when a delivery is bad
onRequestData_ClearsPrefixes(r, code, responseText, rq) ==
    IF state_ = INIT
    THEN /\ lastStatusCode_' = code
         /\ reqs' = rq
         /\ IF responseText = "" \/ ~parse(responseText).ok
            THEN /\ failures' = Append(failures, "BAD_DATA")
                 /\ hostPrefix_' = NullStr
                 /\ blockedPrefix_' = NullStr
            ELSE /\ hostPrefix_' =
                        correctHostPrefix(parse(responseText).arr[1])
                 /\ blockedPrefix_' = parse(responseText).arr[2]
                 /\ UNCHANGED failures
         /\ UNCHANGED <<receivedIntermediateResult_, firstTime_, lastTime_,
                        finished>>
    ELSE IF state_ = CONNECTION_TESTING
    THEN /\ UNCHANGED <<hostPrefix_, blockedPrefix_, failures>>
         /\ IF receivedIntermediateResult_
            THEN /\ lastTime_' = now
                 /\ lastStatusCode_' = code
                 /\ reqs' = rq
                 /\ UNCHANGED <<receivedIntermediateResult_, firstTime_,
                                finished>>
            ELSE IF responseText = "11111"
            THEN /\ receivedIntermediateResult_' = TRUE
                 /\ firstTime_' = now
                 /\ UNCHANGED lastTime_
                 /\ IF checkForEarlyNonBuffered_(now)
                    THEN earlyExit(rq)
                    ELSE /\ lastStatusCode_' = code
                         /\ reqs' = rq
                         /\ UNCHANGED finished
            ELSE /\ firstTime_' = now
                 /\ lastTime_' = now
                 /\ receivedIntermediateResult_' = FALSE
                 /\ lastStatusCode_' = code
                 /\ reqs' = rq
                 /\ UNCHANGED finished
    ELSE /\ lastStatusCode_' = code
         /\ reqs' = rq
         /\ UNCHANGED <<hostPrefix_, blockedPrefix_, failures,
                        receivedIntermediateResult_, firstTime_, lastTime_,
                        finished>>

\* goog.net.BrowserTestChannel.prototype.onRequestData for request r, whose
\* last status code is code, with the requests rq
onRequestData(r, code, responseText, rq) ==
    IF state_ = INIT
    THEN /\ lastStatusCode_' = code
         /\ reqs' = rq
         /\ IF responseText = "" \/ ~parse(responseText).ok
            THEN /\ failures' = Append(failures, "BAD_DATA")
                 /\ UNCHANGED <<hostPrefix_, blockedPrefix_>>
            ELSE /\ hostPrefix_' =
                        correctHostPrefix(parse(responseText).arr[1])
                 /\ blockedPrefix_' = parse(responseText).arr[2]
                 /\ UNCHANGED failures
         /\ UNCHANGED <<receivedIntermediateResult_, firstTime_, lastTime_,
                        finished>>
    ELSE IF state_ = CONNECTION_TESTING
    THEN /\ UNCHANGED <<hostPrefix_, blockedPrefix_, failures>>
         /\ IF receivedIntermediateResult_
            THEN /\ lastTime_' = now
                 /\ lastStatusCode_' = code
                 /\ reqs' = rq
                 /\ UNCHANGED <<receivedIntermediateResult_, firstTime_,
                                finished>>
            ELSE IF responseText = "11111"
            THEN /\ receivedIntermediateResult_' = TRUE
                 /\ firstTime_' = now
                 /\ UNCHANGED lastTime_
                 /\ IF checkForEarlyNonBuffered_(now)
                    THEN earlyExit(rq)
                    ELSE /\ lastStatusCode_' = code
                         /\ reqs' = rq
                         /\ UNCHANGED finished
            ELSE /\ firstTime_' = now
                 /\ lastTime_' = now
                 /\ receivedIntermediateResult_' = FALSE
                 /\ lastStatusCode_' = code
                 /\ reqs' = rq
                 /\ UNCHANGED finished
    ELSE /\ lastStatusCode_' = code
         /\ reqs' = rq
         /\ UNCHANGED <<hostPrefix_, blockedPrefix_, failures,
                        receivedIntermediateResult_, firstTime_, lastTime_,
                        finished>>

\* goodConn that reads the intermediate-result flag on both paths
goodConn_ConsultsFlag == receivedIntermediateResult_

\* goodConn that measures the gap from the start of the test
goodConn_FromStart ==
    IF ~streaming
    THEN ~(lastTime_ - startTime_ < 200)
    ELSE receivedIntermediateResult_

\* the verdict of onRequestComplete in CONNECTION_TESTING
goodConn ==
    IF ~streaming
    THEN ~(lastTime_ - firstTime_ < 200)
    ELSE receivedIntermediateResult_

\* onRequestComplete that also reports a buffered connection on failure
onRequestComplete_FinishesOnFailure(rq) ==
    /\ lastStatusCode_' = rq[request_].code
    /\ IF ~rq[request_].success
       THEN /\ failures' = Append(failures, rq[request_].error)
            /\ reqs' = rq
            /\ finished' = Append(finished, FALSE)
            /\ UNCHANGED <<state_, request_, stage2Requests>>
            /\ UNCHANGED <<probeVars, reach>>
       ELSE /\ UNCHANGED failures
            /\ IF state_ = INIT
               THEN afterStage1(blockedPrefix_, rq)
               ELSE IF state_ = CONNECTION_TESTING
               THEN /\ finished' = Append(finished, goodConn)
                    /\ reqs' = rq
                    /\ UNCHANGED <<state_, request_, stage2Requests>>
                    /\ UNCHANGED <<probeVars, reach>>
               ELSE /\ reqs' = rq
                    /\ UNCHANGED <<state_, request_, stage2Requests, finished>>
                    /\ UNCHANGED <<probeVars, reach>>
    /\ UNCHANGED <<receivedIntermediateResult_, startTime_, firstTime_,
                   lastTime_, hostPrefix_, blockedPrefix_, blocked>>

\* goog.net.BrowserTestChannel.prototype.onRequestComplete, with the requests
\* rq in which the request has completed
onRequestComplete(rq) ==
    /\ lastStatusCode_' = rq[request_].code
    /\ IF ~rq[request_].success
       THEN /\ failures' = Append(failures, rq[request_].error)
            /\ reqs' = rq
            /\ UNCHANGED <<state_, request_, stage2Requests, finished>>
            /\ UNCHANGED <<probeVars, reach>>
       ELSE /\ UNCHANGED failures
            /\ IF state_ = INIT
               THEN afterStage1(blockedPrefix_, rq)
               ELSE IF state_ = CONNECTION_TESTING
               THEN /\ finished' = Append(finished, goodConn)
                    /\ reqs' = rq
                    /\ UNCHANGED <<state_, request_, stage2Requests>>
                    /\ UNCHANGED <<probeVars, reach>>
               ELSE /\ reqs' = rq
                    /\ UNCHANGED <<state_, request_, stage2Requests, finished>>
                    /\ UNCHANGED <<probeVars, reach>>
    /\ UNCHANGED <<receivedIntermediateResult_, startTime_, firstTime_,
                   lastTime_, hostPrefix_, blockedPrefix_, blocked>>

\* abort that leaves the last status code as it is
abort_KeepsStatusCode ==
    /\ IF request_ # Null
       THEN /\ reqs' = cancel(reqs, request_)
            /\ request_' = Null
       ELSE UNCHANGED <<reqs, request_>>
    /\ UNCHANGED <<lastStatusCode_, state_, receivedIntermediateResult_,
                   startTime_, firstTime_, lastTime_, hostPrefix_,
                   blockedPrefix_, finished, failures, blocked,
                   stage2Requests, reach>>

\* abort that also takes the channel back to its state before connect()
abort_ResetsState ==
    /\ IF request_ # Null
       THEN /\ reqs' = cancel(reqs, request_)
            /\ request_' = Null
       ELSE UNCHANGED <<reqs, request_>>
    /\ lastStatusCode_' = -1
    /\ state_' = NullState
    /\ UNCHANGED <<receivedIntermediateResult_, startTime_, firstTime_,
                   lastTime_, hostPrefix_, blockedPrefix_, finished, failures,
                   blocked, stage2Requests, reach>>

\* goog.net.BrowserTestChannel.prototype.abort
abort ==
    /\ IF request_ # Null
       THEN /\ reqs' = cancel(reqs, request_)
            /\ request_' = Null
       ELSE UNCHANGED <<reqs, request_>>
    /\ lastStatusCode_' = -1
    /\ UNCHANGED <<state_, receivedIntermediateResult_, startTime_, firstTime_,
                   lastTime_, hostPrefix_, blockedPrefix_, finished, failures,
                   blocked, stage2Requests, reach>>

\* --------------------------------------------- BrowserTestChannel actions

\* new goog.net.BrowserTestChannel(channel, channelDebug)
TCNew ==
    /\ state_ = NullState
    /\ request_ = Null
    /\ receivedIntermediateResult_ = FALSE
    /\ startTime_ = NullTime
    /\ firstTime_ = NullTime
    /\ lastTime_ = NullTime
    /\ lastStatusCode_ = -1
    /\ hostPrefix_ = NullStr
    /\ blockedPrefix_ = NullStr
    /\ reqs = [r \in 1..2 |-> NoRequest]
    /\ now = Epoch
    /\ tcOp = "new"
    /\ finished = <<>>
    /\ failures = <<>>
    /\ blocked = 0
    /\ stage2Requests = 0
    /\ reach = <<>>
    /\ firstData = NullTime
    /\ lastData = NullTime
    /\ aborted = FALSE

ProbeIdle ==
    /\ probePc = "idle"
    /\ probeOwner = "none"
    /\ retriesRemaining = 0
    /\ probeRetries = 0
    /\ proberCalls = 0
    /\ probeLog = <<>>
    /\ probeResults = <<>>

\* the owner calls connect(path), once
Connect ==
    /\ state_ = NullState
    /\ connect
    /\ tcOp' = "connect"
    /\ UNCHANGED <<envVars, now, firstData, lastData, aborted, wsVars>>

\* the owner calls abort() on a channel it has connected
Abort ==
    /\ state_ # NullState
    /\ abort
    /\ tcOp' = "abort"
    /\ aborted' = TRUE
    /\ UNCHANGED <<envVars, now, firstData, lastData, probeVars, wsVars>>

\* the platform delivers data for the request in flight
RequestData ==
    \E r \in 1..2 :
        \E text \in (IF r = 1 THEN S1Texts ELSE S2Texts) :
            /\ reqs[r].status = "open"
            /\ reqs[r].nData < MaxData
            /\ onRequestData(r, 200, text,
                   [reqs EXCEPT ![r].nData = @ + 1, ![r].text = text,
                                ![r].code = 200])
            /\ tcOp' = "onRequestData"
            /\ firstData' = (IF r = 2 /\ reqs[r].nData = 0
                             THEN now ELSE firstData)
            /\ lastData' = (IF r = 2 THEN now ELSE lastData)
            /\ UNCHANGED <<state_, request_, startTime_, blocked,
                           stage2Requests, reach, aborted, envVars, now,
                           probeVars, wsVars>>

\* the request in flight completes, successfully or not
RequestComplete ==
    \E r \in 1..2 :
        /\ reqs[r].status = "open"
        /\ r = request_
        /\ \/ onRequestComplete([reqs EXCEPT ![r].status = "complete",
                                              ![r].success = TRUE,
                                              ![r].code = 200])
           \/ \E f \in Failures :
                 onRequestComplete([reqs EXCEPT ![r].status = "complete",
                                                ![r].success = FALSE,
                                                ![r].code = f[1],
                                                ![r].error = f[2]])
        /\ tcOp' = "onRequestComplete"
        /\ UNCHANGED <<envVars, now, firstData, lastData, aborted, wsVars>>

\* time passes while a request or the probe is outstanding
Tick ==
    \E d \in Ticks :
        /\ now + d <= MaxNow
        /\ \/ \E r \in 1..2 : reqs[r].status = "open"
           \/ probePc \in {"loading", "pausing"}
        /\ now' = now + d
        /\ tcOp' = "tick"
        /\ UNCHANGED <<state_, request_, receivedIntermediateResult_,
                       startTime_, firstTime_, lastTime_, lastStatusCode_,
                       hostPrefix_, blockedPrefix_, envVars, reqs, finished,
                       failures, blocked, stage2Requests, reach, firstData,
                       lastData, aborted, probeVars, wsVars>>

\* ------------------------------------------------------- probe actions

\* the probe reports to the callback it was started with
ProbeCallback(result) ==
    IF probeOwner = "testchannel"
    THEN /\ checkBlockedCallback_(result)
         /\ tcOp' = "checkBlockedCallback"
         /\ UNCHANGED <<envVars, now, firstData, lastData, aborted>>
    ELSE UNCHANGED tcVars

\* a caller other than the test channel starts a probe
StartProbe ==
    \E n \in 0..MaxRetries :
        /\ probePc = "idle"
        /\ probe("caller", BLOCKED_TIMEOUT_, n, BLOCKED_PAUSE_BETWEEN_RETRIES_)
        /\ UNCHANGED <<tcVars, wsVars>>

\* the image of the attempt in flight loads within the timeout
ProbeAttemptSucceeds ==
    /\ probePc = "loading"
    /\ probePc' = "done"
    /\ probeResults' = Append(probeResults, TRUE)
    /\ ProbeCallback(TRUE)
    /\ UNCHANGED <<probeOwner, retriesRemaining, probeRetries, proberCalls,
                   probeLog, wsVars>>

\* ProbeAttemptFails that gives up while one retry is left
ProbeAttemptFails_GivesUpEarly ==
    \E kind \in {"timeout", "error"} :
        /\ probePc = "loading"
        /\ probeLog' = Append(probeLog, kind)
        /\ IF retriesRemaining > 1
           THEN /\ probePc' = "pausing"
                /\ UNCHANGED <<probeResults, tcVars>>
           ELSE /\ probePc' = "done"
                /\ probeResults' = Append(probeResults, FALSE)
                /\ ProbeCallback(FALSE)
        /\ UNCHANGED <<probeOwner, retriesRemaining, probeRetries,
                       proberCalls, wsVars>>

\* the attempt in flight fails, by timeout or by load error
ProbeAttemptFails ==
    \E kind \in {"timeout", "error"} :
        /\ probePc = "loading"
        /\ probeLog' = Append(probeLog, kind)
        /\ IF retriesRemaining > 0
           THEN /\ probePc' = "pausing"
                /\ UNCHANGED <<probeResults, tcVars>>
           ELSE /\ probePc' = "done"
                /\ probeResults' = Append(probeResults, FALSE)
                /\ ProbeCallback(FALSE)
        /\ UNCHANGED <<probeOwner, retriesRemaining, probeRetries,
                       proberCalls, wsVars>>

\* the pause between two attempts is over: the next attempt is issued
ProbeRetry ==
    /\ probePc = "pausing"
    /\ probePc' = "loading"
    /\ retriesRemaining' = retriesRemaining - 1
    /\ proberCalls' = proberCalls + 1
    /\ UNCHANGED <<probeOwner, probeRetries, probeLog, probeResults, tcVars,
                   wsVars>>

\* ------------------------------------------------------- specifications

InitWS ==
    /\ WSNew
    /\ autoReconnect_ \in BOOLEAN
    /\ TCNew
    /\ ProbeIdle
    /\ firstTestResults = <<>>
    /\ secondTestResults = "null"
    /\ streaming = TRUE
    /\ secondary = TRUE

InitTC ==
    /\ TCNew
    /\ ProbeIdle
    /\ firstTestResults \in FirstResults
    /\ secondTestResults \in SecondResults
    /\ streaming \in BOOLEAN
    /\ secondary \in BOOLEAN
    /\ WSNew
    /\ autoReconnect_ = TRUE

InitProbe ==
    /\ InitWS
    /\ autoReconnect_ = TRUE

NextTC ==
    \/ Connect
    \/ Abort
    \/ RequestData
    \/ RequestComplete
    \/ Tick
    \/ ProbeAttemptSucceeds
    \/ ProbeAttemptFails
    \/ ProbeRetry

NextProbe ==
    \/ StartProbe
    \/ ProbeAttemptSucceeds
    \/ ProbeAttemptFails
    \/ ProbeRetry

SpecTC == InitTC /\ [][NextTC]_vars

SpecProbe == InitProbe /\ [][NextProbe]_vars

\* every attempt ends, by its load or by its timeout, and the pause timer of
\* a retry fires
SpecProbeFair ==
    /\ SpecProbe
    /\ WF_vars(ProbeAttemptSucceeds \/ ProbeAttemptFails)
    /\ WF_vars(ProbeRetry)

NextWS ==
    \/ CallerOpen
    \/ CallerClose
    \/ TimerFire
    \/ TransportOpen
    \/ TransportClose
    \/ TransportMessage
    \/ TransportError

SpecWS == InitWS /\ [][NextWS]_vars

\* ------------------------------------------------------------------ claims

C2_CloseCancelsReconnect ==
    [][closedWithTimer =>
          /\ wsOp' # "timer"
          /\ wsOp' # "open" =>
                 \A i \in SocketIds :
                     sockets'[i].rs = "CONNECTING" =>
                         sockets[i].rs = "CONNECTING"]_vars

\* C3: at most one transport created by the socket is live (created and its
\* close event not yet delivered).
C3_OneLiveTransport == Cardinality(Live) <= 1

\* C4: open() called while the socket is open fails its assertion and
\* changes nothing: handle, URL, protocol, reconnect timer and transports.
C4_OpenWhileOpenRejected ==
    [][(wsOp' = "open" /\ webSocket_ # Null /\ sockets[webSocket_].rs = "OPEN")
          => /\ wsEvent' = "assert"
             /\ UNCHANGED <<webSocket_, url_, protocol_, reconnectTimer_,
                            timers, sockets>>]_vars

\* a second open() was rejected and the transport is still the open one
C4_Witness ==
    /\ wsOp = "open"
    /\ wsEvent = "assert"
    /\ webSocket_ # Null
    /\ sockets[webSocket_].rs = "OPEN"
    /\ Cardinality(Live) = 1

\* C5: after connect() the state only moves forward along
\* INIT -> CHECKING_BLOCKED -> CONNECTION_TESTING: no callback takes the
\* channel back to a state it has left.
C5_StateMovesForward == [][state_' >= state_]_vars

\* the channel went through all three states
C5_Witness ==
    /\ state_ = CONNECTION_TESTING
    /\ reqs[1].status = "complete"
    /\ probeResults = <<TRUE>>
    /\ reqs[2].status = "complete"

\* C6: when stage 1 yields a truthy blockedPrefix and the blocked probe reports
\* failure, testConnectionBlocked is called exactly once, testConnectionFailure
\* and testConnectionFinished are not called, CONNECTION_TESTING is not
\* entered and no stage-2 request is issued.
C6_BlockedEndToEnd ==
    (probeOwner = "testchannel" /\ probeResults = <<FALSE>>) =>
        /\ blocked = 1
        /\ failures = <<>>
        /\ finished = <<>>
        /\ state_ = CHECKING_BLOCKED
        /\ stage2Requests = 0

\* C7: when the blockedPrefix obtained in stage 1 (from the response or from
\* the cached results) is falsy, CHECKING_BLOCKED is not entered and no
\* blocked probe is issued: the step that ends stage 1 (connect() with cached
\* results, or the stage-1 completion handler) sets CONNECTION_TESTING and
\* runs connectStage2_ itself.
C7_FalsyBlockedPrefixSkipsCheck ==
    [][(~Truthy(blockedPrefix_') /\ state_' \notin {NullState, INIT}) =>
          /\ state_' = CONNECTION_TESTING
          /\ proberCalls' = 0
          /\ probePc' = "idle"
          /\ state_ \in {NullState, INIT} =>
                 /\ tcOp' \in {"connect", "onRequestComplete"}
                 /\ \/ /\ secondTestResults = "null"
                       /\ stage2Requests' = stage2Requests + 1
                       /\ request_' = 2
                       /\ reqs'[2].status = "open"
                    \/ /\ secondTestResults # "null"
                       /\ Len(finished') = Len(finished) + 1
                       /\ stage2Requests' = stage2Requests]_vars

\* the stage-1 response carried an empty blocked prefix and stage 2 is running
C7_Witness ==
    /\ state_ = CONNECTION_TESTING
    /\ reqs[1].status = "complete"
    /\ reqs[1].text = "[\"hostA\",\"\"]"
    /\ blockedPrefix_ = ""
    /\ reqs[2].status = "open"
    /\ proberCalls = 0

\* C8: on a streaming-capable transport in CONNECTION_TESTING, when the first
\* data delivery is "11111" and arrives less than 500 ms after the start, the
\* data callback itself cancels the request and calls
\* testConnectionFinished(true); nothing is reported for that request
\* afterwards.
C8_EarlyExit ==
    [][/\ (/\ tcOp' = "onRequestData"
           /\ streaming
           /\ state_ = CONNECTION_TESTING
           /\ reqs[2].nData = 0
           /\ reqs'[2].nData = 1
           /\ reqs'[2].text = "11111"
           /\ now - startTime_ < 500)
          => /\ reqs'[2].status = "cancelled"
             /\ finished' = Append(finished, TRUE)
       /\ reqs[2].status = "cancelled" =>
             /\ reqs'[2].status = "cancelled"
             /\ finished' = finished
             /\ failures' = failures]_vars

\* the early exit was taken on the first delivery, within 500 ms of the start
C8_Witness ==
    /\ streaming
    /\ tcOp = "onRequestData"
    /\ reqs[2].status = "cancelled"
    /\ reqs[2].nData = 1
    /\ reqs[2].text = "11111"
    /\ firstTime_ - startTime_ < 500
    /\ firstTime_ > startTime_
    /\ finished = <<TRUE>>

\* C9: when the stage-2 request completes successfully and
\* receivedIntermediateResult_ was never set (the chunks came together), the
\* channel reports testConnectionFinished(false), with and without streaming
\* support.
C9_BufferedWhenChunksTogether ==
    [][(/\ tcOp' = "onRequestComplete"
        /\ state_ = CONNECTION_TESTING
        /\ reqs[2].status = "open"
        /\ reqs'[2].status = "complete"
        /\ reqs'[2].success
        /\ ~receivedIntermediateResult_)
          => finished' = Append(finished, FALSE)]_vars

\* without streaming support, both chunks came in one delivery well after the
\* start and the connection was reported buffered
C9_Witness ==
    /\ ~streaming
    /\ tcOp = "onRequestComplete"
    /\ reqs[2].status = "complete"
    /\ reqs[2].success
    /\ reqs[2].text = "111112"
    /\ reqs[2].nData = 1
    /\ firstTime_ - startTime_ >= 200
    /\ ~receivedIntermediateResult_
    /\ finished = <<FALSE>>

UnexpectedCloseEvent ==
    /\ wsOp' = "onClose"
    /\ \E i \in SocketIds :
          /\ sockets[i].rs # "FREE"
          /\ sockets'[i].rs = "FREE"
          /\ ~sockets[i].deliberate

\* C11: reconnectAttempt_ is never negative, every transport open event sets
\* it to 0, and every close event of a transport that close() was not called
\* on increments it by exactly 1.
C11_AttemptCounter ==
    [][/\ reconnectAttempt_' >= 0
       /\ wsOp' = "onOpen" => reconnectAttempt_' = 0
       /\ UnexpectedCloseEvent =>
              reconnectAttempt_' = reconnectAttempt_ + 1]_vars

\* C12: a close event handled while closeExpected_ is true is a normal close,
\* with and without auto-reconnect: the closed event is dispatched, the handle,
\* the URL and the protocol are cleared, no reconnect timer is scheduled, the
\* backoff state is left alone and closeExpected_ is false afterwards.
C12_ExpectedCloseIsTerminal ==
    [][(wsOp' = "onClose" /\ closeExpected_) =>
          /\ wsEvent' = "closed"
          /\ webSocket_' = Null
          /\ url_' = NullUrl
          /\ protocol_' = Undefined
          /\ timers' = timers
          /\ reconnectTimer_' = reconnectTimer_
          /\ reconnectAttempt_' = reconnectAttempt_
          /\ nextReconnect_' = nextReconnect_
          /\ ~closeExpected_']_vars

\* with auto-reconnect on, a socket that had reconnected once was closed by
\* the caller and its close event left nothing pending
C12_Witness ==
    /\ autoReconnect_
    /\ wsOp = "onClose"
    /\ wsEvent = "closed"
    /\ timers = {}
    /\ url_ = NullUrl
    /\ protocol_ = Undefined
    /\ webSocket_ = Null
    /\ ~closeExpected_
    /\ reconnectAttempt_ = 1
    /\ Live = {}

\* C13: with auto-reconnect disabled no reconnect timer is ever scheduled, the
\* backoff state stays where construction and onOpen_ put it, and a transport
\* is created only by an open() call of the caller.
C13_NoReconnectWhenDisabled ==
    /\ [](~autoReconnect_ =>
              /\ timers = {}
              /\ reconnectTimer_ = Null
              /\ reconnectAttempt_ = 0
              /\ nextReconnect_ = EXPONENTIAL_BACKOFF_(0))
    /\ [][(~autoReconnect_ /\ wsOp' # "open") =>
             \A i \in SocketIds :
                 sockets'[i].rs = "CONNECTING" =>
                     sockets[i].rs = "CONNECTING"]_vars

\* with auto-reconnect off, a connection was lost unexpectedly (the URL is
\* kept) and nothing was scheduled
C13_Witness ==
    /\ ~autoReconnect_
    /\ wsOp = "onClose"
    /\ wsEvent = "closed"
    /\ url_ # NullUrl
    /\ webSocket_ = Null
    /\ Live = {}
    /\ timers = {}

\* C14: closeExpected_ is true only while a transport that close() was called
\* on has not delivered its close event, and every close event handled with
\* closeExpected_ true is the close event of a transport that close() was
\* called on.
C14_CloseExpectedMeansDeliberate ==
    /\ [](closeExpected_ =>
              \E i \in SocketIds :
                  sockets[i].rs # "FREE" /\ sockets[i].deliberate)
    /\ [][(wsOp' = "onClose" /\ closeExpected_) =>
             \E i \in SocketIds :
                 /\ sockets[i].rs # "FREE"
                 /\ sockets'[i].rs = "FREE"
                 /\ sockets[i].deliberate]_vars

\* the step runs connectStage2_: it is the step that enters CONNECTION_TESTING
EntersStage2 == state_ # CONNECTION_TESTING /\ state_' = CONNECTION_TESTING

\* C15 as stated: with a cached stage-2 result connectStage2_ issues no
\* request and calls testConnectionFinished(channel, b) once, b being the
\* cached boolean.
C15_CachedStage2ReportedAsIs ==
    [][(secondTestResults # "null" /\ EntersStage2) =>
          /\ finished' = Append(finished, secondTestResults = "true")
          /\ stage2Requests' = stage2Requests
          /\ reqs'[2].status = "none"]_vars

\* C15: with a cached stage-2 result (true: buffered, false: unbuffered)
\* connectStage2_ issues no request and calls testConnectionFinished(channel,
\* b) exactly once, b being the negation of the cached boolean; no stage-2
\* request ever exists.
C15_CachedStage2Negated ==
    /\ [](secondTestResults # "null" =>
              /\ stage2Requests = 0
              /\ reqs[2].status = "none"
              /\ Len(finished) <= 1)
    /\ [][(secondTestResults # "null" /\ EntersStage2) =>
             /\ finished' = Append(finished, secondTestResults = "false")
             /\ finished = <<>>
             /\ request_' = request_]_vars

\* stage 1 ran on the network, the cached stage-2 result was true (buffered)
\* and false was reported
C15_Witness ==
    /\ secondTestResults = "true"
    /\ tcOp = "onRequestComplete"
    /\ state_ = CONNECTION_TESTING
    /\ reqs[1].status = "complete"
    /\ reqs[2].status = "none"
    /\ finished = <<FALSE>>

\* C16: with cached stage-1 results INIT is never taken and no stage-1 request
\* is issued; connect() itself enters CHECKING_BLOCKED and starts the blocked
\* probe when the cached blockedPrefix is truthy, and otherwise enters
\* CONNECTION_TESTING and runs connectStage2_.
C16_CachedStage1SkipsInit ==
    /\ [](firstTestResults # <<>> =>
              /\ state_ # INIT
              /\ reqs[1].status = "none")
    /\ [][(firstTestResults # <<>> /\ state_ = NullState
                                   /\ tcOp' = "connect") =>
             /\ blockedPrefix_' = firstTestResults[2]
             /\ IF Truthy(firstTestResults[2])
                THEN /\ state_' = CHECKING_BLOCKED
                     /\ probePc' = "loading"
                     /\ probeOwner' = "testchannel"
                     /\ proberCalls' = 1
                     /\ stage2Requests' = 0
                     /\ finished' = <<>>
                ELSE /\ state_' = CONNECTION_TESTING
                     /\ probePc' = "idle"
                     /\ IF secondTestResults = "null"
                        THEN /\ stage2Requests' = 1
                             /\ request_' = 2
                             /\ reqs'[2].status = "open"
                        ELSE Len(finished') = 1]_vars

\* connect() found a cached truthy blockedPrefix and started the blocked probe
C16_Witness ==
    /\ firstTestResults = <<"hostA", "blockedHostB">>
    /\ tcOp = "connect"
    /\ state_ = CHECKING_BLOCKED
    /\ blockedPrefix_ = "blockedHostB"
    /\ probePc = "loading"
    /\ probeOwner = "testchannel"
    /\ reqs[1].status = "none"

\* C17: in INIT a data delivery whose text is empty or does not parse is
\* reported at once as testConnectionFailure(BAD_DATA); the handler returns
\* normally, leaves hostPrefix_ and blockedPrefix_ as they were and issues no
\* request.
C17_BadDataInInit ==
    [][(/\ tcOp' = "onRequestData"
        /\ state_ = INIT
        /\ reqs'[1].nData = reqs[1].nData + 1
        /\ (reqs'[1].text = "" \/ ~parse(reqs'[1].text).ok))
          => /\ failures' = Append(failures, "BAD_DATA")
             /\ UNCHANGED <<hostPrefix_, blockedPrefix_, state_, request_,
                            stage2Requests, finished, blocked, probeVars>>
             /\ reqs'[1].status = "open"
             /\ reqs'[2] = NoRequest]_vars

\* the prefixes came with the first delivery; the second delivery did not
\* parse and left them
C17_Witness ==
    /\ tcOp = "onRequestData"
    /\ state_ = INIT
    /\ secondary
    /\ reqs[1].nData = 2
    /\ reqs[1].text = "garbage"
    /\ hostPrefix_ = "hostA"
    /\ blockedPrefix_ = "blockedHostB"
    /\ failures = <<"BAD_DATA">>
    /\ reqs[2] = NoRequest

\* C18: when the request in flight completes unsuccessfully, in whatever
\* state, the channel calls testConnectionFailure with the error the request
\* reports, keeps its state, calls neither testConnectionFinished nor
\* testConnectionBlocked and issues no request and no probe.
C18_RequestFailure ==
    [][\A r \in 1..2 :
          (/\ tcOp' = "onRequestComplete"
           /\ reqs[r].status = "open"
           /\ reqs'[r].status = "complete"
           /\ ~reqs'[r].success)
             => /\ failures' = Append(failures, reqs'[r].error)
                /\ UNCHANGED <<state_, request_, stage2Requests, finished,
                               blocked, probeVars>>
                /\ \A q \in 1..2 : q # r => reqs'[q] = reqs[q]]_vars

\* the stage-2 request timed out after its first chunk
C18_Witness ==
    /\ tcOp = "onRequestComplete"
    /\ state_ = CONNECTION_TESTING
    /\ reqs[2].status = "complete"
    /\ ~reqs[2].success
    /\ reqs[2].error = "TIMEOUT"
    /\ reqs[2].nData = 1
    /\ receivedIntermediateResult_
    /\ failures = <<"TIMEOUT">>
    /\ finished = <<>>
    /\ blocked = 0

\* the status code of the most recent request that completed or failed, -1
\* when there is none (request 2 is issued after request 1 is over)
MostRecentDoneCode ==
    IF reqs[2].status = "complete" THEN reqs[2].code
    ELSE IF reqs[1].status = "complete" THEN reqs[1].code
    ELSE -1

\* C19 as stated: getLastStatusCode() is -1 until a request has completed or
\* failed and afterwards is the status code of the most recent request that
\* completed or failed.
C19_StatusOfLastDoneRequest == lastStatusCode_ = MostRecentDoneCode

\* the step delivers data for request r / completes request r
DeliversData(r) == reqs'[r].nData = reqs[r].nData + 1
Completes(r) == reqs[r].status = "open" /\ reqs'[r].status = "complete"

\* C19: getLastStatusCode() is -1 until a request has delivered data,
\* completed or failed; every data delivery sets it to the status code the
\* request reports at that moment (200 on the early exit), every completion
\* or failure sets it to the status code of that request, abort() sets it
\* back to -1, and nothing else changes it.
C19_StatusOfLastReport ==
    /\ []((\A r \in 1..2 : reqs[r].nData = 0 /\ reqs[r].status # "complete")
              => lastStatusCode_ = -1)
    /\ [][/\ \A r \in 1..2 :
                /\ DeliversData(r) =>
                       lastStatusCode_' = (IF reqs'[r].status = "cancelled"
                                           THEN 200 ELSE reqs'[r].code)
                /\ Completes(r) => lastStatusCode_' = reqs'[r].code
          /\ (tcOp' = "abort" /\ tcOp # "abort") => lastStatusCode_' = -1
          /\ (/\ \A r \in 1..2 : ~DeliversData(r) /\ ~Completes(r)
              /\ ~(tcOp' = "abort" /\ tcOp # "abort"))
                => lastStatusCode_' = lastStatusCode_]_vars

\* the stage-1 request has delivered data and is still in flight: the status
\* code is already 200
C19_Witness ==
    /\ tcOp = "onRequestData"
    /\ reqs[1].status = "open"
    /\ reqs[1].nData = 1
    /\ reqs[2] = NoRequest
    /\ MostRecentDoneCode = -1
    /\ lastStatusCode_ = 200

\* C20: abort() cancels the request in flight if there is one, clears
\* request_ and sets lastStatusCode_ to -1; state_, hostPrefix_,
\* blockedPrefix_, receivedIntermediateResult_ and the three timestamps are
\* left as they were.
C20_AbortFrame ==
    [][(tcOp' = "abort" /\ tcOp # "abort") =>
          /\ \A r \in 1..2 :
                reqs'[r].status = (IF reqs[r].status = "open"
                                   THEN "cancelled" ELSE reqs[r].status)
          /\ request_' = Null
          /\ lastStatusCode_' = -1
          /\ UNCHANGED <<state_, hostPrefix_, blockedPrefix_,
                         receivedIntermediateResult_, startTime_, firstTime_,
                         lastTime_>>]_vars

\* the stage-2 request was aborted between its two chunks
C20_Witness ==
    /\ tcOp = "abort"
    /\ state_ = CONNECTION_TESTING
    /\ reqs[1].status = "complete"
    /\ reqs[2].status = "cancelled"
    /\ reqs[2].nData = 1
    /\ receivedIntermediateResult_
    /\ firstTime_ > startTime_
    /\ hostPrefix_ = "hostA"
    /\ request_ = Null
    /\ lastStatusCode_ = -1
    /\ finished = <<>>

\* C25: a transport error event only dispatches an error event: the handle,
\* the URL, the protocol, closeExpected_, the backoff state, the reconnect
\* timer and the pending timers are left as they were.
C25_ErrorFrame ==
    [][wsOp' = "onError" =>
          /\ wsEvent' = "error"
          /\ UNCHANGED <<webSocket_, url_, protocol_, closeExpected_,
                         reconnectAttempt_, nextReconnect_, reconnectTimer_,
                         timers, sockets>>]_vars

\* with auto-reconnect on, the open transport reported an error and nothing
\* was scheduled
C25_Witness ==
    /\ autoReconnect_
    /\ wsOp = "onError"
    /\ wsEvent = "error"
    /\ webSocket_ # Null
    /\ sockets[webSocket_].rs = "OPEN"
    /\ timers = {}
    /\ reconnectTimer_ = Null

\* the step delivers an event of transport i
OpensTransport(i) == sockets[i].rs = "CONNECTING" /\ sockets'[i].rs = "OPEN"
ClosesTransport(i) == sockets[i].rs # "FREE" /\ sockets'[i].rs = "FREE"

\* C27: when the opened event is dispatched the stored handle is the
\* transport that just opened (isOpen() is true), and the close event of a
\* transport that is not the stored handle leaves the handle, the URL and the
\* protocol of the newer transport alone.
C27_EventsBelongToStoredHandle ==
    [][\A i \in SocketIds :
          /\ (wsOp' = "onOpen" /\ OpensTransport(i)) =>
                 /\ webSocket_' = i
                 /\ sockets'[webSocket_'].rs = "OPEN"
          /\ (wsOp' = "onClose" /\ ClosesTransport(i)
                  /\ webSocket_ # Null /\ webSocket_ # i) =>
                 UNCHANGED <<webSocket_, url_, protocol_>>]_vars

\* C29: a reconnect timer is never pending with a cleared URL, so the open()
\* it fires is never called with null.
C29_ReconnectUrlNotNull == \A t \in timers : t.url # NullUrl

\* C30: at most one reconnect timer is pending, a pending timer is the one
\* recorded in reconnectTimer_, and when a timer fires no handle is stored, so
\* its open() neither fails the assertion nor replaces a transport.
C30_OneRecordedTimer ==
    /\ [](/\ Cardinality(timers) <= 1
          /\ \A t \in timers : t.id = reconnectTimer_)
    /\ [][wsOp' = "timer" =>
             /\ webSocket_ = Null
             /\ wsEvent' # "assert"]_vars

\* the reachability events of one type, in the order they were notified
Reached(reachabilityType) ==
    SelectSeq(reach, LAMBDA e : e[1] = reachabilityType)

\* C21 as stated: REQUEST_MADE is notified for each probe attempt, before the
\* attempt is issued; REQUEST_SUCCEEDED is notified once and only when the
\* probe succeeds overall; REQUEST_FAILED is never notified.
C21_RequestMadePerAttempt ==
    probeOwner = "testchannel" =>
        /\ Len(Reached("REQUEST_MADE")) = proberCalls
        /\ \A k \in 1..Len(Reached("REQUEST_MADE")) :
               Reached("REQUEST_MADE")[k][2] = k - 1
        /\ Len(Reached("REQUEST_SUCCEEDED")) =
               (IF probeResults = <<TRUE>> THEN 1 ELSE 0)
        /\ Reached("REQUEST_FAILED") = <<>>

\* C21: REQUEST_MADE is notified exactly once for a blocked check, by
\* checkBlocked_ right after it has started the probe (the first attempt is
\* issued), and not again for a retry; REQUEST_SUCCEEDED is notified exactly
\* once and only when the probe succeeds overall; when the probe fails overall
\* neither REQUEST_SUCCEEDED nor REQUEST_FAILED is notified.
C21_RequestMadeOncePerCheck ==
    /\ (probeOwner = "testchannel") = (reach # <<>>)
    /\ reach # <<>> => reach[1] = <<"REQUEST_MADE", 1>>
    /\ Len(reach) <= 2
    /\ (Len(reach) = 2) = (probeOwner = "testchannel" /\ probeResults = <<TRUE>>)
    /\ Len(reach) = 2 => reach[2] = <<"REQUEST_SUCCEEDED", proberCalls>>

\* the blocked probe succeeded at its third attempt: one REQUEST_MADE, one
\* REQUEST_SUCCEEDED
C21_Witness ==
    /\ probeOwner = "testchannel"
    /\ probeResults = <<TRUE>>
    /\ proberCalls = 3
    /\ Len(probeLog) = 2
    /\ reach = <<<<"REQUEST_MADE", 1>>, <<"REQUEST_SUCCEEDED", 3>>>>
    /\ state_ = CONNECTION_TESTING

\* C22: a stage-1 delivery whose text is not empty and parses to the array r
\* sets hostPrefix_ to the owner's correction of r[0] and blockedPrefix_ to
\* r[1]; connect() does the same with cached stage-1 results.
C22_Stage1Prefixes ==
    [][/\ (/\ tcOp' = "onRequestData"
           /\ state_ = INIT
           /\ DeliversData(1)
           /\ reqs'[1].text # ""
           /\ parse(reqs'[1].text).ok)
             => /\ hostPrefix_' =
                       correctHostPrefix(parse(reqs'[1].text).arr[1])
                /\ blockedPrefix_' = parse(reqs'[1].text).arr[2]
       /\ (state_ = NullState /\ tcOp' = "connect" /\ firstTestResults # <<>>)
             => /\ hostPrefix_' = correctHostPrefix(firstTestResults[1])
                /\ blockedPrefix_' = firstTestResults[2]]_vars

\* the owner does not use secondary domains: the delivered host prefix was
\* corrected to null, the blocked prefix was stored as delivered
C22_Witness ==
    /\ ~secondary
    /\ tcOp = "onRequestData"
    /\ state_ = INIT
    /\ reqs[1].nData = 2
    /\ reqs[1].text = "[\"hostA\",\"blockedHostB\"]"
    /\ failures = <<"BAD_DATA">>
    /\ hostPrefix_ = NullStr
    /\ blockedPrefix_ = "blockedHostB"

\* the step is a stage-2 data delivery that takes the early exit
EarlyExitStep == DeliversData(2) /\ reqs'[2].status = "cancelled"

\* C23 as stated: the early exit is taken only if the transport supports
\* streaming and chunk one arrives less than 500 ms after the start.
C23_EarlyExitNeedsBoth ==
    [][EarlyExitStep =>
          /\ streaming
          /\ now - startTime_ < MIN_TIME_EXPECTED_BETWEEN_DATA_]_vars

\* C23: the early exit is taken exactly by a delivery of "11111" in
\* CONNECTION_TESTING, before an intermediate result was seen, when the
\* transport supports streaming or chunk one arrives less than 500 ms after
\* the start: with streaming support the timing is not looked at, without it
\* a chunk one 500 ms or more after the start does not take the exit.
C23_EarlyExitNeedsEither ==
    [][DeliversData(2) =>
          (EarlyExitStep =
              (/\ state_ = CONNECTION_TESTING
               /\ ~receivedIntermediateResult_
               /\ reqs'[2].text = "11111"
               /\ (streaming \/
                     now - startTime_ < MIN_TIME_EXPECTED_BETWEEN_DATA_)))]_vars

\* with streaming support chunk one arrived 500 ms or more after the start
\* and the early exit was taken
C23_Witness ==
    /\ streaming
    /\ tcOp = "onRequestData"
    /\ reqs[2].status = "cancelled"
    /\ reqs[2].text = "11111"
    /\ firstTime_ - startTime_ >= MIN_TIME_EXPECTED_BETWEEN_DATA_
    /\ finished = <<TRUE>>

TerminalCallbacks == Len(finished) + Len(failures) + blocked

\* C26: while the owner has not called abort(), the channel makes at most one
\* terminal callback (testConnectionFinished, testConnectionFailure or
\* testConnectionBlocked) and, once it has made one, starts no request and no
\* probe and does not change state.
C26_OneTerminalCallback ==
    /\ [](~aborted => TerminalCallbacks <= 1)
    /\ [][(~aborted' /\ TerminalCallbacks >= 1) =>
             /\ stage2Requests' = stage2Requests
             /\ proberCalls' = proberCalls
             /\ state_' = state_
             /\ \A r \in 1..2 :
                   reqs'[r].status = "open" => reqs[r].status = "open"]_vars

\* C28: once the owner has called abort() the channel makes no callback to
\* the owner and starts no request, whatever its state was, also when the
\* blocked probe was outstanding and reports afterwards.
C28_NothingAfterAbort ==
    [][aborted =>
          /\ finished' = finished
          /\ failures' = failures
          /\ blocked' = blocked
          /\ stage2Requests' = stage2Requests
          /\ \A r \in 1..2 : reqs'[r].status # "open"]_vars

====
